---- MODULE Spec2Model ----
(***************************************************************************)
(* Model of the long-polling session of TelegramPollingTrigger.trigger():  *)
(* the closure variables isPolling / abortController / allowedUpdates, the *)
(* polling loop startPolling() with its cursor `offset`, and the           *)
(* closeFunction handed back to the host.                                  *)
(*                                                                         *)
(* JavaScript runs startPolling() synchronously up to its `await`; the     *)
(* loop is therefore suspended only while a getUpdates request is pending. *)
(* One action models one resumption of the loop: from the settled request  *)
(* (a response or a thrown error) through the body, the `while` test and   *)
(* the issue of the next request.                                          *)
(***************************************************************************)
EXTENDS Integers, Sequences, FiniteSets, TLC

VARIABLES
    updatesParam,    \* the node parameter 'updates' as configured
    allowedUpdates,  \* closure variable allowedUpdates (after the '*' test)
    isPolling,       \* closure variable isPolling
    aborted,         \* abortController.signal.aborted
    pc,              \* startPolling(): "await" | "done" (returned) | "failed" (threw)
    offset,          \* the cursor
    requests,        \* bodies of the getUpdates requests issued so far
    emitCount,       \* number of calls of this.emit so far
    lastEmit,        \* argument of the latest call of this.emit (<<>> before any)
    last,            \* what the latest resumption of the loop handled
    other            \* the closure state of a second trigger() call

\* The state of the session followed in detail, and the whole state.
session == <<updatesParam, allowedUpdates, isPolling, aborted, pc, offset,
             requests, emitCount, lastEmit, last>>
vars == <<session, other>>

----------------------------------------------------------------------------
(* Bounds of the model *)

MaxUpdateId == 1
MaxLen == 2
MaxIter == 2

----------------------------------------------------------------------------
(* Data *)

ConflictStatus == 409

\* Two of the kind tags of the 'updates' options, enough for records with
\* zero, one or several kind-keys.
Kinds == {"message", "poll"}

\* Values of the 'updates' multiOptions parameter (arrays of option values).
UpdatesParams ==
    { <<>>, <<"*">>, <<"message", "*">>, <<"message">>, <<"message", "poll">> }

\* An Update: its update_id and the kind-keys present in the record.
\* The identifiers range over message updates, the kind-keys (none, one,
\* several) over the updates of identifier 0.
Updates ==
    [update_id : 0..MaxUpdateId, kinds : {{"message"}}]
        \cup [update_id : {0}, kinds : SUBSET Kinds]

RECURSIVE SeqsUpTo(_, _)
SeqsUpTo(S, n) ==
    IF n = 0 THEN {<<>>}
    ELSE LET shorter == SeqsUpTo(S, n - 1)
         IN  shorter \cup {Append(s, x) : s \in {t \in shorter : Len(t) = n - 1}, x \in S}

Results == SeqsUpTo(Updates, MaxLen)

\* ApiResponse<Update[]>: `present` is FALSE when result is null or missing.
\* A response with ok = false is skipped before its result is read, so its
\* result ranges over the lists of at most one update only.
Responses ==
    [ok : {TRUE}, present : {TRUE}, result : Results]
        \cup [ok : {FALSE}, present : {TRUE}, result : {r \in Results : Len(r) <= 1}]
        \cup [ok : BOOLEAN, present : {FALSE}, result : {<<>>}]

\* Errors thrown by the request helper: error.response?.status, or no
\* response at all (network failure, aborted request).
Errors ==
    { [hasResponse |-> TRUE,  status |-> ConflictStatus],
      [hasResponse |-> TRUE,  status |-> 500],
      [hasResponse |-> FALSE, status |-> 0] }

NoResponse == [ok |-> FALSE, present |-> FALSE, result |-> <<>>]
NoError == [hasResponse |-> FALSE, status |-> 0]

\* The responses that differ for the control flow of the loop only: an empty
\* list, one message update, a malformed response.
LoopResponses ==
    [ok : {TRUE}, present : {TRUE},
     result : {<<>>} \cup {<<u>> : u \in [update_id : 0..MaxUpdateId,
                                          kinds : {{"message"}}]}]
        \cup {NoResponse}

----------------------------------------------------------------------------
(* Pure helpers of the loop body *)

\* Array.prototype.includes
Includes(arr, x) == \E i \in DOMAIN arr : arr[i] = x

\* Object.keys(update): update_id and the kind-keys.
ObjectKeys(update) == {"update_id"} \cup update.kinds

\* Variant: the wildcard recognised only when it is the whole list.
CollapseWildcardAlone(param) == IF param = <<"*">> THEN <<>> ELSE param

\* if (allowedUpdates.includes('*')) allowedUpdates = []
CollapseWildcard(param) == IF Includes(param, "*") THEN <<>> ELSE param

\* Variant: the two tests joined by && instead of ||.
MalformedBothTests(response) == ~response.ok /\ ~response.present

\* if (!response.ok || !response.result) continue;
Malformed(response) == ~response.ok \/ ~response.present

\* offset = updates[updates.length - 1].update_id + 1
NextOffset(upds) == upds[Len(upds)].update_id + 1

\* Variant: every() instead of some().
KeepsUpdateEvery(update, allowed) == \A x \in ObjectKeys(update) : Includes(allowed, x)

\* (update) => Object.keys(update).some((x) => allowedUpdates.includes(x))
KeepsUpdate(update, allowed) == \E x \in ObjectKeys(update) : Includes(allowed, x)

\* Variant: the list filtered in place, splicing while iterating, so that the
\* element after a removed one is never tested.
RECURSIVE KindFilterSplicing(_, _)
KindFilterSplicing(upds, allowed) ==
    IF upds = <<>> THEN <<>>
    ELSE IF KeepsUpdate(Head(upds), allowed)
         THEN <<Head(upds)>> \o KindFilterSplicing(Tail(upds), allowed)
         ELSE IF Len(upds) = 1 THEN <<>>
              ELSE <<upds[2]>> \o KindFilterSplicing(Tail(Tail(upds)), allowed)

\* updates.filter(...)
KindFilter(upds, allowed) == SelectSeq(upds, LAMBDA u : KeepsUpdate(u, allowed))

\* Variant: the filter applied without the length test.
SurvivorsAlwaysFiltered(upds, allowed) == KindFilter(upds, allowed)

\* if (allowedUpdates.length > 0) { updates = updates.filter(...) }
Survivors(upds, allowed) ==
    IF Len(allowed) > 0 THEN KindFilter(upds, allowed) ELSE upds

\* Variant: the records in reverse order.
WrapReversed(upds) == [i \in 1..Len(upds) |-> [json |-> upds[Len(upds) + 1 - i]]]

\* updates.map((update) => ({ json: update }))
Wrap(upds) == [i \in 1..Len(upds) |-> [json |-> upds[i]]]

\* this.emit([ ... ])
EmitArgument(upds, allowed) == << Wrap(Survivors(upds, allowed)) >>

\* Variants of the catch test: nothing suppressed; every 409 suppressed;
\* every error after closeFunction suppressed.
SuppressedNever(error, running) == FALSE
SuppressedAnyConflict(error, running) ==
    error.hasResponse /\ error.status = ConflictStatus
SuppressedWhenClosed(error, running) == ~running

\* error.response?.status === 409 && !isPolling
Suppressed(error, running) ==
    error.hasResponse /\ error.status = ConflictStatus /\ ~running

\* Variant: while (true).
LoopConditionAlways(running) == TRUE

\* while (isPolling)
LoopCondition(running) == running

\* body of the getUpdates request (limit and timeout are fixed parameters)
Request(off, allowed) == [offset |-> off, allowed_updates |-> allowed]

----------------------------------------------------------------------------
(* Operations *)

\* trigger(): reads the parameters, creates the closure state and runs
\* startPolling() up to its first await.
Trigger(param) ==
    /\ updatesParam = param
    /\ allowedUpdates = CollapseWildcard(param)
    /\ isPolling = TRUE
    /\ aborted = FALSE
    /\ offset = 0
    /\ requests = << Request(0, CollapseWildcard(param)) >>
    /\ pc = "await"
    /\ emitCount = 0
    /\ lastEmit = <<>>
    /\ last = [kind |-> "none", response |-> NoResponse, error |-> NoError,
               running |-> TRUE, offsetBefore |-> 0, emitBefore |-> 0,
               reqBefore |-> 0]

\* The closure state a second trigger() call creates: its own isPolling,
\* abortController and offset, its first request pending (nreq counts the
\* requests it has issued).
OtherTrigger ==
    [isPolling |-> TRUE, aborted |-> FALSE, offset |-> 0, pc |-> "await",
     nreq |-> 1]

Init ==
    /\ \E param \in UpdatesParams : Trigger(param)
    /\ other = OtherTrigger

\* Variant: the request issued without awaiting it, and issued again.
LoopHeadNoAwait(off) ==
    IF LoopCondition(isPolling)
    THEN /\ requests' = Append(Append(requests, Request(off, allowedUpdates)),
                               Request(off, allowedUpdates))
         /\ pc' = "await"
    ELSE /\ requests' = requests
         /\ pc' = "done"

\* The `while (isPolling)` test followed by the next request.
LoopHead(off) ==
    IF LoopCondition(isPolling)
    THEN /\ requests' = Append(requests, Request(off, allowedUpdates))
         /\ pc' = "await"
    ELSE /\ requests' = requests
         /\ pc' = "done"

\* The pending request resolves with `response`: try-block after the await.
OnResponse(response) ==
    /\ pc = "await"
    /\ Len(requests) <= MaxIter
    /\ last' = [kind |-> "response", response |-> response, error |-> NoError,
                running |-> isPolling, offsetBefore |-> offset,
                emitBefore |-> emitCount, reqBefore |-> Len(requests)]
    /\ IF ~Malformed(response) /\ Len(response.result) > 0
       THEN /\ offset' = NextOffset(response.result)
            /\ emitCount' = emitCount + 1
            /\ lastEmit' = EmitArgument(response.result, allowedUpdates)
       ELSE UNCHANGED <<offset, emitCount, lastEmit>>
    /\ LoopHead(offset')
    /\ UNCHANGED <<updatesParam, allowedUpdates, isPolling, aborted, other>>

\* The pending request rejects with `error`: the catch block.
OnError(error) ==
    /\ pc = "await"
    /\ Len(requests) <= MaxIter
    /\ last' = [kind |-> "error", response |-> NoResponse, error |-> error,
                running |-> isPolling, offsetBefore |-> offset,
                emitBefore |-> emitCount, reqBefore |-> Len(requests)]
    /\ IF Suppressed(error, isPolling)
       THEN LoopHead(offset)
       ELSE /\ pc' = "failed"
            /\ requests' = requests
    /\ UNCHANGED <<updatesParam, allowedUpdates, isPolling, aborted,
                   offset, emitCount, lastEmit, other>>

\* Variant: isPolling declared once for the module, not once per trigger().
CloseFunctionSharedFlag ==
    /\ isPolling' = FALSE
    /\ aborted' = TRUE
    /\ other' = [other EXCEPT !.isPolling = FALSE]
    /\ UNCHANGED <<updatesParam, allowedUpdates, pc, offset, requests,
                   emitCount, lastEmit, last>>

\* Variant: the flag toggled instead of cleared.
CloseFunctionToggle ==
    /\ isPolling' = ~isPolling
    /\ aborted' = TRUE
    /\ UNCHANGED <<updatesParam, allowedUpdates, pc, offset, requests,
                   emitCount, lastEmit, last, other>>

\* closeFunction(): isPolling = false; abortController.abort();
CloseFunction ==
    /\ isPolling' = FALSE
    /\ aborted' = TRUE
    /\ UNCHANGED <<updatesParam, allowedUpdates, pc, offset, requests,
                   emitCount, lastEmit, last, other>>

Next ==
    \/ \E response \in Responses : OnResponse(response)
    \/ \E error \in Errors : OnError(error)
    \/ CloseFunction

Spec == Init /\ [][Next]_vars

----------------------------------------------------------------------------
(* The second session: the same loop over its own closure variables *)

\* while (isPolling) and the next request, in the second session.
OtherLoopHead(o) ==
    IF LoopCondition(o.isPolling)
    THEN [o EXCEPT !.nreq = @ + 1, !.pc = "await"]
    ELSE [o EXCEPT !.pc = "done"]

\* The second session's pending request resolves.
OtherOnResponse(response) ==
    /\ other.pc = "await"
    /\ other.nreq <= MaxIter
    /\ other' = OtherLoopHead(
                   IF ~Malformed(response) /\ Len(response.result) > 0
                   THEN [other EXCEPT !.offset = NextOffset(response.result)]
                   ELSE other)
    /\ UNCHANGED session

\* The second session's pending request rejects.
OtherOnError(error) ==
    /\ other.pc = "await"
    /\ other.nreq <= MaxIter
    /\ other' = IF Suppressed(error, other.isPolling)
                THEN OtherLoopHead(other)
                ELSE [other EXCEPT !.pc = "failed"]
    /\ UNCHANGED session

\* The second session's closeFunction.
OtherClose ==
    /\ other' = [other EXCEPT !.isPolling = FALSE, !.aborted = TRUE]
    /\ UNCHANGED session

TwoInit ==
    /\ Trigger(<<"message">>)
    /\ other = OtherTrigger

TwoNext ==
    \/ \E response \in LoopResponses : OnResponse(response)
    \/ \E error \in Errors : OnError(error)
    \/ CloseFunction
    \/ \E response \in LoopResponses : OtherOnResponse(response)
    \/ \E error \in Errors : OtherOnError(error)
    \/ OtherClose

\* Two sessions started by two trigger() calls, interleaved in every way.
TwoSpec == TwoInit /\ [][TwoNext]_vars

\* The pending request settles: the awaited promise resolves or rejects and
\* the event loop resumes startPolling().
Settle ==
    \/ \E response \in LoopResponses : OnResponse(response)
    \/ \E error \in Errors : OnError(error)

FairNext ==
    \/ Settle
    \/ CloseFunction

\* One session in which every pending request eventually settles.
FairSpec == Init /\ [][FairNext]_vars /\ WF_vars(Settle)

----------------------------------------------------------------------------
(* Properties *)

Range(seq) == {seq[i] : i \in DOMAIN seq}

\* The latest resumption handled a response / an error.
HandledResponse == last.kind = "response"
HandledError == last.kind = "error"
HandledWellFormed ==
    HandledResponse /\ last.response.ok /\ last.response.present
HandledMalformed ==
    HandledResponse /\ (~last.response.ok \/ ~last.response.present)
HandledConflict ==
    HandledError /\ last.error.hasResponse /\ last.error.status = ConflictStatus
HandledOtherError ==
    HandledError /\ ~(last.error.hasResponse /\ last.error.status = ConflictStatus)

ReceivedList == last.response.result
MaxReceivedId ==
    CHOOSE m \in {u.update_id : u \in Range(ReceivedList)} :
        \A u \in Range(ReceivedList) : u.update_id <= m

\* The updates of the received list with at least one allowed kind-key.
HasAllowedKey(u) == u.kinds \cap Range(allowedUpdates) # {}
ExpectedKept == SelectSeq(ReceivedList, HasAllowedKey)

\* The latest iteration called the Sink, with one inner list of records.
EmittedNow ==
    /\ emitCount = last.emitBefore + 1
    /\ Len(lastEmit) = 1
EmittedUpdates == [i \in DOMAIN lastEmit[1] |-> lastEmit[1][i].json]

\* C1: after a well-formed response the cursor is max(update_id) + 1 over the
\* received list (in any order) if the list is non-empty, and unchanged if
\* it is empty.
C1_CursorIsMaxPlusOne ==
    HandledWellFormed =>
        IF Len(ReceivedList) > 0
        THEN offset = MaxReceivedId + 1
        ELSE offset = last.offsetBefore

\* C2: the first request carries offset 0 and the offsets carried by the
\* requests of a session never decrease.
C2_RequestOffsetsNonDecreasing ==
    /\ requests[1].offset = 0
    /\ \A i, j \in DOMAIN requests :
         i < j => requests[i].offset <= requests[j].offset

\* C3: once closeFunction has run (isPolling is false), no step issues a
\* request and isPolling stays false.
C3_NoRequestAfterStop ==
    [][~isPolling => (requests' = requests /\ ~isPolling')]_vars

\* closeFunction ran while a request was pending; the response was handled
\* afterwards and the loop returned without a further request.
C3_Witness ==
    /\ HandledResponse /\ ~last.running
    /\ ~isPolling /\ aborted
    /\ pc = "done"
    /\ Len(requests) = last.reqBefore

\* C4: a 409 handled after closeFunction is suppressed: startPolling does not
\* throw, it returns at the loop test, and no request is issued.
C4_ConflictAfterStopSuppressed ==
    (HandledConflict /\ ~last.running) =>
        /\ pc = "done"
        /\ Len(requests) = last.reqBefore

C4_Witness ==
    /\ HandledConflict /\ ~last.running
    /\ pc = "done"

\* C5: a 409 handled while isPolling is true is thrown: startPolling fails,
\* and after the failure no request is issued and nothing is emitted.
C5_ConflictWhileRunningFatal ==
    /\ []((HandledConflict /\ last.running) =>
            /\ pc = "failed"
            /\ Len(requests) = last.reqBefore
            /\ emitCount = last.emitBefore)
    /\ [][(HandledConflict /\ last.running) =>
            (pc' = "failed" /\ requests' = requests /\ emitCount' = emitCount
               /\ lastEmit' = lastEmit /\ last' = last)]_vars

C5_Witness ==
    /\ HandledConflict /\ last.running
    /\ pc = "failed"
    /\ last.reqBefore > 1

\* C6: an error that is not a 409 (another status, or no status) is thrown
\* whether or not closeFunction has run: startPolling fails and the request
\* is not issued again.
C6_OtherErrorFatal ==
    /\ [](HandledOtherError =>
            /\ pc = "failed"
            /\ Len(requests) = last.reqBefore)
    /\ [][HandledOtherError => (pc' = "failed" /\ requests' = requests)]_vars

\* The request aborted by closeFunction fails without a status.
C6_Witness ==
    /\ HandledOtherError /\ ~last.error.hasResponse
    /\ ~last.running /\ aborted
    /\ pc = "failed"

\* C7: a malformed response emits nothing, leaves the cursor unchanged and
\* throws nothing; if isPolling is still true the next request is issued
\* with the same offset.
C7_MalformedSkipped ==
    HandledMalformed =>
        /\ emitCount = last.emitBefore
        /\ offset = last.offsetBefore
        /\ pc # "failed"
        /\ IF last.running
           THEN /\ pc = "await"
                /\ Len(requests) = last.reqBefore + 1
                /\ requests[Len(requests)].offset = last.offsetBefore
                /\ requests[Len(requests)].offset = requests[last.reqBefore].offset
           ELSE /\ pc = "done"
                /\ Len(requests) = last.reqBefore

\* ok is false and the result holds an update, after the cursor has moved.
C7_Witness ==
    /\ HandledMalformed /\ last.running
    /\ ~last.response.ok /\ Len(ReceivedList) > 0
    /\ last.offsetBefore > 0
    /\ pc = "await"

\* C8: with a non-empty allowedUpdates, the batch emitted for a non-empty
\* received list holds exactly the updates with at least one allowed
\* kind-key, in the order received.
C8_FilterKeepsExactlyAllowed ==
    (HandledWellFormed /\ Len(ReceivedList) > 0 /\ Len(allowedUpdates) > 0) =>
        /\ EmittedNow
        /\ EmittedUpdates = ExpectedKept

\* One update kept for one of its several keys, another one dropped.
C8_Witness ==
    /\ HandledWellFormed /\ Len(allowedUpdates) > 0
    /\ EmittedNow
    /\ Len(ReceivedList) = 2
    /\ Len(EmittedUpdates) = 1
    /\ Cardinality(EmittedUpdates[1].kinds) = 2
    /\ ~(EmittedUpdates[1].kinds \subseteq Range(allowedUpdates))

\* C9: with an empty allowedUpdates, the batch emitted for a non-empty
\* received list holds every update of the list, whatever its keys.
C9_NoFilterWhenEmpty ==
    (HandledWellFormed /\ Len(ReceivedList) > 0 /\ Len(allowedUpdates) = 0) =>
        /\ EmittedNow
        /\ EmittedUpdates = ReceivedList

\* A list with an update without kind-keys and one with several.
C9_Witness ==
    /\ HandledWellFormed /\ Len(allowedUpdates) = 0
    /\ EmittedNow
    /\ \E u \in Range(ReceivedList) : u.kinds = {}
    /\ \E u \in Range(ReceivedList) : Cardinality(u.kinds) = 2
    /\ EmittedUpdates = ReceivedList

\* C10: the Sink never receives an empty batch: an empty result list emits
\* nothing, and a list whose updates are all dropped by the filter emits
\* nothing.
C10_NoEmptyBatch ==
    /\ emitCount > 0 => (Len(lastEmit) = 1 /\ Len(lastEmit[1]) > 0)
    /\ (HandledWellFormed /\ Len(ReceivedList) = 0) =>
          emitCount = last.emitBefore
    /\ (HandledWellFormed /\ Len(ReceivedList) > 0
          /\ Len(allowedUpdates) > 0 /\ Len(ExpectedKept) = 0) =>
          emitCount = last.emitBefore

\* C11: an iteration calls the Sink at most once, and each call passes one
\* inner list holding the surviving updates of that iteration's response,
\* each wrapped alone in a record, unmodified and in the order received. From
\* offset 0 a response with a single update emits one record and the next
\* request carries that update's update_id + 1.
C11_OneCallOneBatch ==
    /\ [][emitCount' <= emitCount + 1]_vars
    /\ [](emitCount > last.emitBefore =>
            /\ HandledWellFormed
            /\ EmittedNow
            /\ \A i \in DOMAIN lastEmit[1] : DOMAIN lastEmit[1][i] = {"json"}
            /\ EmittedUpdates =
                 IF Len(allowedUpdates) > 0 THEN ExpectedKept ELSE ReceivedList)
    /\ []((HandledWellFormed /\ last.offsetBefore = 0 /\ last.running
             /\ Len(ReceivedList) = 1
             /\ (Len(allowedUpdates) = 0 \/ HasAllowedKey(ReceivedList[1]))) =>
            /\ EmittedNow
            /\ EmittedUpdates = << ReceivedList[1] >>
            /\ requests[Len(requests)].offset = ReceivedList[1].update_id + 1)

\* Two updates of different identifiers emitted in one call, in order.
C11_Witness ==
    /\ HandledWellFormed
    /\ EmittedNow
    /\ Len(lastEmit[1]) = 2
    /\ lastEmit[1][1].json.update_id > lastEmit[1][2].json.update_id
    /\ ReceivedList[1].update_id > ReceivedList[2].update_id

\* C13: closeFunction leaves isPolling false and the signal aborted and
\* touches nothing else; called again, in whatever state the loop is, it
\* changes nothing at all.
C13_CloseIdempotent ==
    [][CloseFunction =>
         /\ ~isPolling' /\ aborted'
         /\ UNCHANGED <<offset, requests, emitCount, lastEmit, pc>>
         /\ ((~isPolling /\ aborted) => UNCHANGED vars)]_vars

\* closeFunction has run after the loop had failed on a fatal error.
C13_Witness ==
    /\ ~isPolling /\ aborted
    /\ pc = "failed"
    /\ HandledError /\ last.running

\* C14: when the configured list holds '*', allowedUpdates is empty, every
\* request carries an empty allowed_updates and no update is dropped.
HasWildcard == \E i \in DOMAIN updatesParam : updatesParam[i] = "*"
C14_WildcardCollapses ==
    HasWildcard =>
        /\ allowedUpdates = <<>>
        /\ \A i \in DOMAIN requests : requests[i].allowed_updates = <<>>
        /\ (HandledWellFormed /\ Len(ReceivedList) > 0) =>
              (EmittedNow /\ Len(lastEmit[1]) = Len(ReceivedList))

\* '*' configured together with a kind tag; a poll update is emitted.
C14_Witness ==
    /\ HasWildcard /\ Len(updatesParam) > 1
    /\ Len(requests) > 1
    /\ HandledWellFormed /\ EmittedNow
    /\ \E i \in DOMAIN lastEmit[1] : lastEmit[1][i].json.kinds = {"poll"}

\* C15: at most one request is pending: a request is issued only by the step
\* that handles the settlement of the previous one, one at a time.
C15_OneRequestInFlight ==
    /\ [](Len(requests) <= last.reqBefore + 1)
    /\ [](pc # "await" => Len(requests) = last.reqBefore)
    /\ [][Len(requests') > Len(requests) =>
            /\ pc = "await"
            /\ last'.reqBefore = Len(requests)
            /\ Len(requests') = Len(requests) + 1]_vars

\* closeFunction interleaved between two requests.
C15_Witness ==
    /\ pc = "await"
    /\ Len(requests) = 3
    /\ last.reqBefore = 2
    /\ ~isPolling

\* C17: filtering is idempotent: the filter applied to the batch it has
\* already produced returns that batch.
C17_FilterIdempotent ==
    (HandledWellFormed /\ Len(ReceivedList) > 0) =>
        /\ EmittedNow
        /\ Survivors(EmittedUpdates, allowedUpdates) = EmittedUpdates
        /\ Survivors(Survivors(ReceivedList, allowedUpdates), allowedUpdates)
             = Survivors(ReceivedList, allowedUpdates)

\* The filter dropped one update and kept the other.
C17_Witness ==
    /\ HandledWellFormed /\ Len(allowedUpdates) > 0
    /\ EmittedNow
    /\ Len(ReceivedList) = 2 /\ Len(EmittedUpdates) = 1
    /\ Survivors(EmittedUpdates, allowedUpdates) = EmittedUpdates

\* C18: a resumption of the loop after closeFunction emits nothing and leaves
\* the cursor where it was, also when the pending request resolves with a
\* well-formed non-empty response.
C18_NothingAfterStop ==
    (last.kind # "none" /\ ~last.running) =>
        /\ emitCount = last.emitBefore
        /\ offset = last.offsetBefore

\* C19: an iteration that ends in an error, suppressed or thrown, leaves the
\* cursor and the Sink untouched; only an iteration that received a
\* well-formed non-empty response moves the cursor or calls the Sink.
C19_ErrorFrame ==
    /\ [](HandledError =>
            (offset = last.offsetBefore /\ emitCount = last.emitBefore))
    /\ [][HandledError' => UNCHANGED <<offset, emitCount, lastEmit>>]_last
    /\ [][(offset' # offset \/ emitCount' # emitCount \/ lastEmit' # lastEmit) =>
            /\ last'.kind = "response"
            /\ last'.response.ok /\ last'.response.present
            /\ Len(last'.response.result) > 0]_vars

\* A suppressed 409 after the cursor had moved and a batch had been emitted.
C19_Witness ==
    /\ HandledConflict /\ ~last.running
    /\ pc = "done"
    /\ last.offsetBefore > 0 /\ offset = last.offsetBefore
    /\ last.emitBefore > 0 /\ emitCount = last.emitBefore

\* C12: after closeFunction the loop eventually returns or throws, provided
\* the pending request settles (FairSpec); the loop is followed up to the
\* MaxIter-th request of the session.
C12_StopLeadsToTermination ==
    (~isPolling /\ Len(requests) <= MaxIter) ~> (pc \in {"done", "failed"})

\* The loop has returned through the suppressed 409 of the aborted request.
C12_Witness ==
    /\ ~isPolling /\ aborted
    /\ pc = "done"
    /\ HandledConflict /\ ~last.running
    /\ Len(requests) <= MaxIter

\* C16: two sessions share no mutable state: a step of one session
\* (closeFunction, a fatal error, a cursor advance, any resumption) leaves
\* isPolling, the abort signal and the cursor of the other as they were.
C16_SessionsIndependent ==
    [][/\ (session' # session) =>
            /\ other'.isPolling = other.isPolling
            /\ other'.aborted = other.aborted
            /\ other'.offset = other.offset
       /\ (other' # other) => UNCHANGED <<isPolling, aborted, offset>>]_vars

\* One session closed and failed at offset 0 while the other one, still
\* running, has moved its cursor.
C16_Witness ==
    /\ ~isPolling /\ aborted /\ pc = "failed" /\ offset = 0
    /\ other.isPolling /\ ~other.aborted /\ other.pc = "await"
    /\ other.offset > 0

====
